---- MODULE Spec2Model ----
(***************************************************************************)
(* Smart Recipe Explorer: the Flask request handlers of app.py, the        *)
(* Recipe and AIHistory tables, and the two AI gateway functions of        *)
(* genai.py.                                                               *)
(*                                                                         *)
(* Text is modelled as a sequence of tokens (a token is a word, a blank,   *)
(* or the marker literal), so that Python's `in` is a contiguous           *)
(* sub-sequence test and str.strip() removes leading and trailing blanks.  *)
(* A Python value that may be None is a sequence of length 0 (None) or 1   *)
(* (the value).  Each request handler is one atomic step: requests are     *)
(* served one at a time.                                                   *)
(***************************************************************************)
EXTENDS Integers, Sequences, FiniteSets

VARIABLES
    tablesCreated,  \* db.create_all() has run on this database
    recipes,        \* rows of the Recipe table
    ai_history,     \* rows of the AIHistory table
    resp,           \* the last operation: its request and what it returned
    recipes0,       \* the Recipe table as the database was first opened
    seedCalls       \* number of seed_data() calls so far

vars == <<tablesCreated, recipes, ai_history, resp, recipes0, seedCalls>>

----------------------------------------------------------------------------
\* Bounds

MaxHistory == 2
MaxSeedCalls == 2

----------------------------------------------------------------------------
\* Python values

None == <<>>
Some(v) == <<v>>

\* the whitespace token
Blank == " "

\* genai.py:51 / app.py:65
Marker == "INVALID_INGREDIENTS"
MarkerText == <<Marker>>

\* app.py:66-69 (the leading cross-mark emoji is written X)
RejectionMessage ==
    <<"X I can only suggest recipes using edible ingredients ",
      "like vegetables, fruits, dairy, or meat.">>

\* Python `needle in hay` on str
ContainsWhole(needle, hay) == hay = needle
Contains(needle, hay) ==
    \E i \in 1..(Len(hay) - Len(needle) + 1) :
        SubSeq(hay, i, i + Len(needle) - 1) = needle

RECURSIVE lstrip(_)
lstrip(s) == IF s # <<>> /\ Head(s) = Blank THEN lstrip(Tail(s)) ELSE s

RECURSIVE rstrip(_)
rstrip(s) ==
    IF s # <<>> /\ s[Len(s)] = Blank THEN rstrip(SubSeq(s, 1, Len(s) - 1)) ELSE s

\* str.strip()
strip(s) == rstrip(lstrip(s))

----------------------------------------------------------------------------
\* The hosted chat-completion API (an external, nondeterministic party)

\* texts the model may answer with
Contents ==
    { <<>>,
      <<"ok">>,
      <<Blank, "ok", Blank>>,
      MarkerText,
      <<"ok", Marker, "ok">> }

\* an HTTP response: status code and choices[0].message.content of its JSON
\* body (None when the body has no such member); the status and the body
\* are independent of each other
ProviderResponses ==
    [status : {200}, content : {Some(c) : c \in Contents} \cup {None}]
        \cup [status : {429, 503}, content : {None, Some(<<"ok">>)}]

NoResponse == [status |-> 0, content |-> None]

\* requests.Response.raise_for_status(): raises on 4xx and 5xx
raise_for_status_5xx_only(r) == r.status >= 500
raise_for_status(r) == r.status >= 400 /\ r.status < 600

\* result of a Python call: it raised, or returned value
Raised == [raised |-> TRUE, value |-> None]
Returned(v) == [raised |-> FALSE, value |-> v]

\* genai.py simplify_recipe; r is what the provider answers to the POST
simplify_recipe(instructions, r) ==
    IF raise_for_status(r) THEN Raised
    ELSE IF r.content = None THEN Raised         \* KeyError on data[...]
    ELSE Returned(r.content[1])

\* genai.py suggest_recipe
suggest_recipe(ingredients, r) ==
    IF raise_for_status(r) THEN Raised
    ELSE IF r.content = None THEN Raised
    ELSE Returned(strip(r.content[1]))

----------------------------------------------------------------------------
\* The store

Rec101 ==
    [id |-> "rec_101", name |-> <<"Paneer Butter Masala">>, cuisine |-> "Indian",
     isVegetarian |-> TRUE, prepTimeMinutes |-> 40,
     ingredients |-> <<"paneer, tomato, butter, cream">>, difficulty |-> "Medium",
     instructions |-> <<"Cook tomatoes. Add paneer. Add cream and spices.">>,
     tags |-> "dinner,party"]

\* a row some other writer put in a persistent DATABASE_URL database
Rec202 ==
    [id |-> "rec_202", name |-> <<"Dal Tadka">>, cuisine |-> "Indian",
     isVegetarian |-> TRUE, prepTimeMinutes |-> 30,
     ingredients |-> <<"dal, ghee, cumin">>, difficulty |-> "Easy",
     instructions |-> <<"Boil dal. Temper spices.">>,
     tags |-> "lunch"]

RecipeIds == {"rec_101", "rec_202", "rec_999"}

\* Recipe.query.get(recipe_id): None or the row
Recipe_first(table, recipe_id) ==
    IF table # {} THEN Some(CHOOSE r \in table : TRUE) ELSE None
Recipe_get(table, recipe_id) ==
    IF \E r \in table : r.id = recipe_id
    THEN Some(CHOOSE r \in table : r.id = recipe_id)
    ELSE None

RECURSIVE MaxId(_)
MaxId(table) ==
    IF table = {} THEN 0
    ELSE LET r == CHOOSE x \in table : TRUE
             m == MaxId(table \ {r})
         IN IF r.id > m THEN r.id ELSE m

\* the integer primary key the database gives a new AIHistory row
NextId(table) == MaxId(table) + 1

\* AIHistory(action_type=..., user_input=..., ai_output=...)
AIHistory(action_type, user_input, ai_output) ==
    [action_type |-> action_type, user_input |-> user_input, ai_output |-> ai_output]

\* the nullable=False columns
NotNull(row) == row.user_input # None /\ row.ai_output # None

WithId(table, row) ==
    [id |-> NextId(table), action_type |-> row.action_type,
     user_input |-> row.user_input, ai_output |-> row.ai_output]

\* db.session.add(row); db.session.commit(): raises IntegrityError and
\* leaves the table alone when a NOT NULL column is None
commit_replacing(table, row) ==
    IF NotNull(row)
    THEN [raised |-> FALSE,
          value |-> {x \in table : x.action_type # row.action_type}
                        \cup {WithId(table, row)}]
    ELSE [raised |-> TRUE, value |-> table]
commit(table, row) ==
    IF NotNull(row)
    THEN [raised |-> FALSE, value |-> table \cup {WithId(table, row)}]
    ELSE [raised |-> TRUE, value |-> table]

RECURSIVE order_by_id_asc(_)
order_by_id_asc(table) ==
    IF table = {} THEN <<>>
    ELSE LET lo == CHOOSE x \in table : \A y \in table : x.id <= y.id
         IN <<lo>> \o order_by_id_asc(table \ {lo})

RECURSIVE SortDesc(_)
SortDesc(table) ==
    IF table = {} THEN <<>>
    ELSE LET hi == CHOOSE x \in table : \A y \in table : x.id >= y.id
         IN <<hi>> \o SortDesc(table \ {hi})

\* AIHistory.query.order_by(AIHistory.id.desc()).all()
order_by_id_desc(table) == SortDesc(table)

\* seed_data() as a function of the Recipe table
seed_data_unguarded(table) ==
    IF \E r \in table : r.id = Rec101.id THEN table ELSE table \cup {Rec101}
seed_data(table) ==
    IF Cardinality(table) = 0 THEN table \cup {Rec101} ELSE table

----------------------------------------------------------------------------
\* Requests

\* request.form: a mapping from field names to text
Inputs == { <<>>, <<"paneer, tomato">> }
Forms == {[f \in {} |-> <<>>]} \cup {[f \in {"ingredients"} |-> s] : s \in Inputs}

\* request.form.get(key)
form_get(form, key) == IF key \in DOMAIN form THEN Some(form[key]) ELSE None

Response(op, method, recipe_id, status, ingredients, ai_calls, ai, ai_result, listing) ==
    [op |-> op, method |-> method, recipe_id |-> recipe_id, status |-> status,
     ingredients |-> ingredients, ai_calls |-> ai_calls, ai |-> ai,
     ai_result |-> ai_result, listing |-> listing]

\* request.method == "POST"
is_post_always(method) == TRUE
is_post(method) == method = "POST"

Init ==
    /\ \/ tablesCreated = FALSE /\ recipes = {}
       \/ tablesCreated = TRUE /\ recipes \in {{}, {Rec202}}
    /\ recipes0 = recipes
    /\ ai_history = {}
    /\ seedCalls = 0
    /\ resp = Response("init", "", "", 0, None, 0, NoResponse, None, <<>>)

\* app.py:179-182, the start of the process: create_all(), then seed_data()
Main ==
    /\ seedCalls < MaxSeedCalls
    /\ tablesCreated' = TRUE
    /\ recipes' = seed_data(recipes)
    /\ seedCalls' = seedCalls + 1
    /\ resp' = Response("main", "", "", 0, None, 0, NoResponse, None, <<>>)
    /\ UNCHANGED <<ai_history, recipes0>>

\* app.py home(), behind before_request create_tables()
home(method, form, r) ==
    /\ method = "POST" => Cardinality(ai_history) < MaxHistory
    /\ tablesCreated' = TRUE
    /\ IF is_post(method)
       THEN LET ingredients == form_get(form, "ingredients")
                ai_response == suggest_recipe(ingredients, r)
            IN IF ai_response.raised
               THEN /\ resp' = Response("home", method, "", 500, ingredients, 1, r,
                                        None, <<>>)
                    /\ UNCHANGED ai_history
               ELSE IF Contains(MarkerText, ai_response.value)
               THEN /\ resp' = Response("home", method, "", 200, ingredients, 1, r,
                                        Some(RejectionMessage), <<>>)
                    /\ UNCHANGED ai_history
               ELSE LET ai_result == ai_response.value
                        c == commit(ai_history,
                                    AIHistory("Suggestion", ingredients, Some(ai_result)))
                    IN /\ ai_history' = c.value
                       /\ resp' = Response("home", method, "", IF c.raised THEN 500 ELSE 200,
                                           ingredients, 1, r,
                                           IF c.raised THEN None ELSE Some(ai_result), <<>>)
       ELSE /\ resp' = Response("home", method, "", 200, None, 0, NoResponse, None, <<>>)
            /\ UNCHANGED ai_history
    /\ UNCHANGED <<recipes, recipes0, seedCalls>>

\* app.py recipe_detail(recipe_id)
recipe_detail(method, recipe_id, r) ==
    /\ method = "POST" => Cardinality(ai_history) < MaxHistory
    /\ tablesCreated' = TRUE
    /\ LET recipe == Recipe_get(recipes, recipe_id)
       IN IF recipe = None
          THEN /\ resp' = Response("recipe_detail", method, recipe_id, 404, None, 0,
                                   NoResponse, None, <<>>)
               /\ UNCHANGED ai_history
          ELSE IF is_post(method)
          THEN LET simplified == simplify_recipe(recipe[1].instructions, r)
               IN IF simplified.raised
                  THEN /\ resp' = Response("recipe_detail", method, recipe_id, 500, None,
                                           1, r, None, <<>>)
                       /\ UNCHANGED ai_history
                  ELSE LET c == commit(ai_history,
                                       AIHistory("Simplification", Some(recipe[1].name),
                                                 Some(simplified.value)))
                       IN /\ ai_history' = c.value
                          /\ resp' = Response("recipe_detail", method, recipe_id,
                                              IF c.raised THEN 500 ELSE 200, None, 1, r,
                                              IF c.raised THEN None
                                              ELSE Some(simplified.value), <<>>)
          ELSE /\ resp' = Response("recipe_detail", method, recipe_id, 200, None, 0,
                                   NoResponse, None, <<>>)
               /\ UNCHANGED ai_history
    /\ UNCHANGED <<recipes, recipes0, seedCalls>>

\* app.py simplify_recipe_route(recipe_id), POST only
simplify_recipe_route_saving(recipe_id, r) ==
    /\ tablesCreated' = TRUE
    /\ LET recipe == Recipe_get(recipes, recipe_id)
       IN IF recipe = None
          THEN resp' = Response("simplify_recipe_route", "POST", recipe_id, 404, None, 0,
                                NoResponse, None, <<>>)
          ELSE LET simplified == simplify_recipe(recipe[1].instructions, r)
               IN IF simplified.raised
                  THEN resp' = Response("simplify_recipe_route", "POST", recipe_id, 500,
                                        None, 1, r, None, <<>>)
                  ELSE resp' = Response("simplify_recipe_route", "POST", recipe_id, 200,
                                        None, 1, r, Some(simplified.value), <<>>)
    /\ recipes' = {[x EXCEPT !.instructions =
                        IF x.id = recipe_id /\ resp'.status = 200
                        THEN resp'.ai_result[1] ELSE @] : x \in recipes}
    /\ UNCHANGED <<ai_history, recipes0, seedCalls>>
simplify_recipe_route(recipe_id, r) ==
    /\ tablesCreated' = TRUE
    /\ LET recipe == Recipe_get(recipes, recipe_id)
       IN IF recipe = None
          THEN resp' = Response("simplify_recipe_route", "POST", recipe_id, 404, None, 0,
                                NoResponse, None, <<>>)
          ELSE LET simplified == simplify_recipe(recipe[1].instructions, r)
               IN IF simplified.raised
                  THEN resp' = Response("simplify_recipe_route", "POST", recipe_id, 500,
                                        None, 1, r, None, <<>>)
                  ELSE resp' = Response("simplify_recipe_route", "POST", recipe_id, 200,
                                        None, 1, r, Some(simplified.value), <<>>)
    /\ UNCHANGED <<recipes, ai_history, recipes0, seedCalls>>

\* app.py history(), GET only
history ==
    /\ tablesCreated' = TRUE
    /\ resp' = Response("history", "GET", "", 200, None, 0, NoResponse, None,
                        order_by_id_desc(ai_history))
    /\ UNCHANGED <<recipes, ai_history, recipes0, seedCalls>>

\* the methods= lists of the @app.route decorators
AllowedMethods(endpoint) ==
    CASE endpoint = "home" -> {"GET", "POST"}
      [] endpoint = "recipe_detail" -> {"GET", "POST"}
      [] endpoint = "simplify_recipe_route" -> {"POST"}
      [] endpoint = "history" -> {"GET"}

Endpoints == {"home", "recipe_detail", "simplify_recipe_route", "history"}

HasRecipeId(endpoint) == endpoint \in {"recipe_detail", "simplify_recipe_route"}

\* a request whose method the route does not list: before_request runs, the
\* view function does not, and the framework answers 405
method_not_allowed(endpoint, method, recipe_id) ==
    /\ method \notin AllowedMethods(endpoint)
    /\ HasRecipeId(endpoint) <=> recipe_id # ""
    /\ tablesCreated' = TRUE
    /\ resp' = Response(endpoint, method, recipe_id, 405, None, 0, NoResponse, None, <<>>)
    /\ UNCHANGED <<recipes, ai_history, recipes0, seedCalls>>

\* a GET carries no form, and no provider call is pending for it
FormsOf(method) == IF method = "GET" THEN {[f \in {} |-> <<>>]} ELSE Forms
AnswersTo(method) == IF method = "GET" THEN {NoResponse} ELSE ProviderResponses

Next ==
    \/ Main
    \/ \E method \in {"GET", "POST"} :
          \E form \in FormsOf(method), r \in AnswersTo(method) :
              home(method, form, r)
    \/ \E method \in {"GET", "POST"}, recipe_id \in RecipeIds :
          \E r \in AnswersTo(method) :
              recipe_detail(method, recipe_id, r)
    \/ \E recipe_id \in RecipeIds, r \in ProviderResponses :
           simplify_recipe_route(recipe_id, r)
    \/ history
    \/ \E endpoint \in Endpoints, method \in {"GET", "POST"},
          recipe_id \in RecipeIds \cup {""} :
           method_not_allowed(endpoint, method, recipe_id)

Spec == Init /\ [][Next]_vars

----------------------------------------------------------------------------
\* Properties

\* the step is a Home POST that the provider answered with text `c`
HomePostAnswered(c) ==
    /\ resp'.op = "home" /\ resp'.method = "POST"
    /\ resp'.ai.status = 200 /\ resp'.ai.content = Some(c)

\* the step added exactly the row `row` to AIHistory
AddedExactly(row) ==
    /\ row \notin ai_history
    /\ ai_history' = ai_history \cup {row}

\* C1: a Home POST whose AI response has the marker anywhere in it writes no
\* AIHistory row and renders the fixed rejection message.
C1_MarkerRejected ==
    [][\A c \in Contents :
          (HomePostAnswered(c) /\ (\E i \in 1..Len(c) : c[i] = Marker))
              => /\ ai_history' = ai_history
                 /\ resp'.ai_result = Some(RejectionMessage)]_vars

C1_Witness ==
    /\ resp.op = "home" /\ resp.method = "POST"
    /\ resp.ai.content = Some(<<"ok", Marker, "ok">>)
    /\ resp.ai_result = Some(RejectionMessage)
    /\ ai_history # {}

\* C2: a Home POST with any ingredients input, the absent field included,
\* whose AI response has no marker creates exactly one AIHistory row
\* ("Suggestion", raw input, trimmed response) and renders the AI text.
C2_SuggestionLogged ==
    [][\A c \in Contents :
          (HomePostAnswered(c) /\ ~(\E i \in 1..Len(c) : c[i] = Marker))
              => /\ \E row \in ai_history' :
                        /\ AddedExactly(row)
                        /\ row.action_type = "Suggestion"
                        /\ row.user_input = resp'.ingredients
                        /\ row.ai_output = Some(strip(c))
                 /\ resp'.ai_result = Some(strip(c))]_vars

\* C3: a simplification POST on an existing recipe, on either route, whose
\* gateway call succeeds creates exactly one "Simplification" row.
C3_SimplificationLogged ==
    [][(/\ resp'.op \in {"recipe_detail", "simplify_recipe_route"}
        /\ resp'.method = "POST"
        /\ (\E x \in recipes : x.id = resp'.recipe_id)
        /\ resp'.ai.status = 200 /\ resp'.ai.content # None)
           => \E row \in ai_history' :
                 /\ AddedExactly(row)
                 /\ row.action_type = "Simplification"]_vars

\* C4: a GET or POST that a recipe route serves for an id that is not in the
\* Recipe table returns 404, calls no AI and writes no history.
C4_UnknownRecipeNotFound ==
    [][(/\ resp'.op \in {"recipe_detail", "simplify_recipe_route"}
        /\ resp'.method \in AllowedMethods(resp'.op)
        /\ ~(\E x \in recipes : x.id = resp'.recipe_id))
           => /\ resp'.status = 404
              /\ resp'.ai_calls = 0
              /\ ai_history' = ai_history]_vars

C4_Witness ==
    /\ resp.op = "recipe_detail" /\ resp.method = "POST"
    /\ resp.recipe_id = "rec_999" /\ resp.status = 404
    /\ recipes = {Rec101}

\* C5: a POST whose AI call gets a non-success HTTP status ends in 500 after
\* that one call, with both tables as they were.
C5_ProviderFailureAborts ==
    [][(resp'.ai_calls > 0 /\ resp'.ai.status >= 400)
           => /\ resp'.status = 500
              /\ resp'.ai_calls = 1
              /\ ai_history' = ai_history
              /\ recipes' = recipes]_vars

C5_Witness ==
    /\ resp.op = "recipe_detail" /\ resp.method = "POST"
    /\ resp.ai = [status |-> 429, content |-> Some(<<"ok">>)]
    /\ resp.status = 500
    /\ ai_history # {}

\* C6: GET /history returns every AIHistory row once, ids strictly
\* descending, and a row a request has just created comes before all rows
\* that were there before.
C6_HistoryNewestFirst ==
    [][/\ (resp'.op = "history" /\ resp'.method = "GET") =>
              (LET l == resp'.listing
               IN /\ Len(l) = Cardinality(ai_history')
                  /\ {l[i] : i \in 1..Len(l)} = ai_history'
                  /\ \A i, j \in 1..Len(l) : i < j => l[i].id > l[j].id)
       /\ \A new \in ai_history' \ ai_history :
              /\ order_by_id_desc(ai_history')[1] = new
              /\ \A old \in ai_history : new.id > old.id]_vars

C6_Witness ==
    /\ resp.op = "history" /\ resp.method = "GET"
    /\ Len(resp.listing) >= 2
    /\ resp.listing[1].action_type # resp.listing[2].action_type

\* C7: once seed_data has run on a Recipe table that was empty, the table
\* holds exactly rec_101 however often it runs again; run on a non-empty
\* table it changes nothing.
C7_SeedIdempotent ==
    [][/\ (recipes0 = {} /\ seedCalls' >= 1) => recipes' = {Rec101}
       /\ (seedCalls' > seedCalls /\ recipes # {}) => recipes' = recipes]_vars

C7_Witness ==
    /\ recipes0 = {} /\ seedCalls >= 2
    /\ resp.op = "main"
    /\ recipes = {Rec101}

\* C8: AIHistory is append-only: every row stays, unchanged, and the row
\* count never goes down.
C8_HistoryAppendOnly ==
    [][/\ ai_history \subseteq ai_history'
       /\ Cardinality(ai_history') >= Cardinality(ai_history)
       /\ \A x, y \in ai_history' : x.id = y.id => x = y]_vars

C8_Witness ==
    /\ Cardinality(ai_history) >= 2
    /\ \E x, y \in ai_history : x.action_type = y.action_type /\ x.id # y.id

\* C9: no request changes the Recipe table; only seed_data on an empty table
\* does.
C9_RecipesReadOnly ==
    [][recipes' # recipes => (resp'.op = "main" /\ recipes = {})]_vars

C9_Witness ==
    /\ resp.op = "simplify_recipe_route" /\ resp.status = 200
    /\ resp.ai_result = Some(<<"ok">>)
    /\ recipes = {Rec101}

\* C10: a GET calls no AI and changes no table; a request calls the AI at
\* most once, and only a POST does.
C10_GetHasNoEffect ==
    [][/\ (resp'.method = "GET") =>
              (/\ resp'.ai_calls = 0
               /\ ai_history' = ai_history
               /\ recipes' = recipes)
       /\ resp'.ai_calls \in {0, 1}
       /\ (resp'.ai_calls = 1) => (resp'.method = "POST")]_vars

C10_Witness ==
    /\ resp.op = "recipe_detail" /\ resp.method = "GET" /\ resp.status = 200
    /\ ai_history # {}

====
